---- MODULE Spec2Model ----
(***************************************************************************)
(* smolbench: the warmup-then-sample benchmark engine (run1, benchFancy,   *)
(* bench), the in-memory report registry, saveReportsSync and reportTable. *)
(*                                                                         *)
(* Times are whole clock ticks.  A JavaScript number that the code derives *)
(* by division is an exact fraction [n, d]: d > 0 is a finite value, d = 0 *)
(* is +Infinity (n = 1), -Infinity (n = -1) or NaN (n = 0).                *)
(***************************************************************************)
EXTENDS Integers, Sequences, FiniteSets, TLC

VARIABLES
    reports,        \* the module-level registry: name -> BenchmarkReport
    file,           \* the report file: [kind, map]
    run,            \* the locals of the benchFancy call and its position
    ixReports,      \* the registry of the module src/index.ts
    ix,             \* the locals of the bench call of src/index.ts
    fn,             \* the plain workload given to bench: ticks its calls take
    reportsAtStart, \* history: the registry when the call began
    measured,       \* history: the last measured region of each sampling trial
    runs,           \* history: number of benchmark calls begun
    last,           \* history: the step just taken, what it threw or printed
    savers,         \* processes saving to the file: registry, position, mapping read
    events          \* history: the reads and writes of the file by those processes

vars == <<reports, file, run, ixReports, ix, fn, reportsAtStart, measured, runs,
          last, savers, events>>
ixVars == <<ixReports, ix, fn>>
saveVars == <<savers, events>>

-----------------------------------------------------------------------------
(* Bounds of the model.                                                    *)

MaxWarmup == 5          \* warmup trials explored before the model stops a run
MaxSamples == 2         \* sampling trials explored before the model stops a run
MaxRuns == 1            \* benchmark calls followed trial by trial per behaviour

Names == {"A", "B"}
Undefined == "undefined"            \* the JavaScript value undefined
Durations == {0, 1}                 \* ticks a measured region or a setup takes
Calls == 0..2                       \* invocations of the measure callback in a trial
Readings == {0, 1}                  \* the clock when a trial is entered
\* <<warmupTime, testTime, samples>> of the option objects passed
Budgets == {<<0, 0, 1>>, <<0, 1, 1>>, <<2, 1, 2>>}

-----------------------------------------------------------------------------
(* JavaScript numbers.                                                     *)

RECURSIVE GCD(_, _)
GCD(a, b) == IF b = 0 THEN a ELSE GCD(b, a % b)

Abs(x) == IF x < 0 THEN -x ELSE x
Sign(x) == IF x < 0 THEN -1 ELSE IF x > 0 THEN 1 ELSE 0

\* The number n/d in lowest terms; n/0 is an infinity or NaN.
Frac(n, d) ==
    IF d = 0 THEN [n |-> Sign(n), d |-> 0]
    ELSE LET g == GCD(Abs(n), Abs(d))
         IN  [n |-> Sign(d) * (n \div g), d |-> Abs(d) \div g]

NumI(k) == [n |-> k, d |-> 1]
NaN == [n |-> 0, d |-> 0]
Infinity == [n |-> 1, d |-> 0]
JNull == [n |-> 0, d |-> -1]        \* null where a number is expected
IsNaN(x) == x.n = 0 /\ x.d = 0
IsFiniteNum(x) == x.d > 0

\* a / b
JsDiv(a, b) == Frac(a.n * b.d, a.d * b.n)

\* a * b
JsMul(a, b) ==
    IF a.d = 0 \/ b.d = 0
    THEN [n |-> Sign(a.n) * Sign(b.n), d |-> 0]
    ELSE Frac(a.n * b.n, a.d * b.d)

\* a < b (false when either is NaN)
JsLt(a, b) ==
    IF IsNaN(a) \/ IsNaN(b) THEN FALSE
    ELSE IF a.d = 0 /\ b.d = 0 THEN a.n < b.n
    ELSE a.n * b.d < b.n * a.d

\* Math.floor
JsFloor(x) == IF x.d = 0 THEN x ELSE NumI(x.n \div x.d)

\* Math.max of two numbers
JsMax(a, b) ==
    IF IsNaN(a) \/ IsNaN(b) THEN NaN
    ELSE IF JsLt(a, b) THEN b ELSE a

\* Math.round: the nearest integer, ties upward
JsRound(x) == IF x.d = 0 THEN x ELSE NumI((2 * x.n + x.d) \div (2 * x.d))

RECURSIVE Pow10(_)
Pow10(k) == IF k = 0 THEN 1 ELSE 10 * Pow10(k - 1)

roundDigits(n, digits) ==
    LET m == NumI(Pow10(digits))
    IN  JsDiv(JsRound(JsMul(n, m)), m)

\* ToNumber(null) is 0 in the comparisons and the arithmetic of round
ToNumber(x) == IF x = JNull THEN NumI(0) ELSE x

round(x) ==
    LET n == ToNumber(x)
    IN  IF JsLt(n, NumI(1)) THEN roundDigits(n, 3)
        ELSE IF JsLt(n, NumI(10)) THEN roundDigits(n, 2)
        ELSE IF JsLt(n, NumI(100)) THEN roundDigits(n, 1)
        ELSE JsRound(n)

RECURSIVE SumSeq(_)
SumSeq(s) == IF s = <<>> THEN 0 ELSE s[1] + SumSeq(Tail(s))

-----------------------------------------------------------------------------
(* Options.                                                                *)

defaultOpts ==
    [warmupTime |-> 3000, testTime |-> 10000, samples |-> 100,
     name |-> Undefined, quiet |-> FALSE]

\* {...base, ...over}: the keys of both, over's value where both have the key
Spread(base, over) ==
    [k \in DOMAIN base \cup DOMAIN over |->
        IF k \in DOMAIN over THEN over[k] ELSE base[k]]

\* The options argument: [kind |-> "null"], [kind |-> "string", name |-> s]
\* or [kind |-> "object", fields |-> a partial BenchOpts].
ResolveOpts(options) ==
    IF options.kind = "null" THEN defaultOpts
    ELSE IF options.kind = "string" THEN Spread(defaultOpts, [name |-> options.name])
    ELSE Spread(defaultOpts, options.fields)

\* The options the model passes: none, a name alone, or an object of the
\* three numbers with or without a name.
OptionsArgs ==
    { [kind |-> "null"], [kind |-> "string", name |-> "A"] }
    \cup
    { [kind |-> "object",
       fields |-> [warmupTime |-> b[1], testTime |-> b[2], samples |-> b[3]]]
        : b \in Budgets }
    \cup
    { [kind |-> "object",
       fields |-> [warmupTime |-> b[1], testTime |-> b[2], samples |-> b[3],
                   name |-> nm]]
        : b \in Budgets, nm \in Names }

-----------------------------------------------------------------------------
(* run1.                                                                   *)

\* What a workload does in one trial: unmeasured setup, then one call of the
\* measure callback per element of durs (the time the measured function
\* takes), then unmeasured teardown.  run1 reads the clock nowhere else.
\* The workloads taken: one measured region with any setup and teardown
\* around it, and no region, one or two with none.
Workloads ==
    { [setup |-> su, durs |-> <<d>>, teardown |-> td]
        : su \in Durations, d \in Durations, td \in Durations }
    \cup
    { [setup |-> 0, durs |-> ds, teardown |-> 0]
        : ds \in UNION { [1..k -> Durations] : k \in Calls } }

\* bench's wrapper b => { b(fn) }: fn, taking d ticks, is the whole measured region.
Wrapper(d) == [setup |-> 0, durs |-> <<d>>, teardown |-> 0]

\* the callback reading start on its first invocation only
RECURSIVE MeasureFirstStart(_, _)
MeasureFirstStart(st, ds) ==
    IF ds = <<>> THEN st
    ELSE MeasureFirstStart([start |-> IF st.run THEN st.start ELSE st.now,
                            end |-> st.now + Head(ds),
                            run |-> TRUE,
                            now |-> st.now + Head(ds)], Tail(ds))

\* The callback handed to fn, applied once per measured region in order.
RECURSIVE Measure(_, _)
Measure(st, ds) ==
    IF ds = <<>> THEN st
    ELSE Measure([start |-> st.now,
                  end |-> st.now + Head(ds),
                  run |-> TRUE,
                  now |-> st.now + Head(ds)], Tail(ds))

\* run1 without the check that the callback ran
run1Unchecked(t0, w) ==
    LET st == Measure([start |-> 0, end |-> 0, run |-> FALSE, now |-> t0 + w.setup],
                      w.durs)
    IN  [threw |-> FALSE, value |-> st.end - st.start]

\* run1 timing the whole of fn, from its call to its return
run1Whole(t0, w) ==
    LET st == Measure([start |-> 0, end |-> 0, run |-> FALSE, now |-> t0 + w.setup],
                      w.durs)
    IN  IF ~st.run THEN [threw |-> TRUE, value |-> 0]
        ELSE [threw |-> FALSE, value |-> (st.now + w.teardown) - t0]

\* run1(fn) with the clock reading t0 on entry.
run1(t0, w) ==
    LET st == Measure([start |-> 0, end |-> 0, run |-> FALSE, now |-> t0 + w.setup],
                      w.durs)
    IN  IF ~st.run THEN [threw |-> TRUE, value |-> 0]
        ELSE [threw |-> FALSE, value |-> st.end - st.start]

-----------------------------------------------------------------------------
(* benchFancy.                                                             *)

NotDerived == [n |-> -1, d |-> -1]  \* samples before the warmup loop has ended
EmptyMap == [k \in {} |-> NaN]

\* the loop condition without the time bound
WarmupContinueCount(count, time, o) == count < 4

\* the loop condition with && for ||
WarmupContinueBoth(count, time, o) == count < 4 /\ time < o.warmupTime

\* the condition of the do-while loop
WarmupContinue(count, time, o) == count < 4 \/ time < o.warmupTime

\* the sample count with Math.min for Math.max
DeriveSamplesMin(o, time, count) ==
    LET timePerIteration == JsDiv(NumI(time), NumI(count))
        byTime == JsFloor(JsDiv(NumI(o.testTime), timePerIteration))
    IN  IF IsNaN(byTime) THEN NaN
        ELSE IF JsLt(byTime, NumI(o.samples)) THEN byTime ELSE NumI(o.samples)

\* const samples = Math.max(opts.samples, Math.floor(opts.testTime / timePerIteration))
DeriveSamples(o, time, count) ==
    LET timePerIteration == JsDiv(NumI(time), NumI(count))
    IN  JsMax(NumI(o.samples), JsFloor(JsDiv(NumI(o.testTime), timePerIteration)))

\* the condition of the sampling loop
SampleContinue(k, smp) == JsLt(NumI(k), smp)

\* the report built after the sampling loop
MakeReport(o, times, total, smp) ==
    [sampleTimes |-> times, meanTime |-> JsDiv(NumI(total), smp), options |-> o]

\* the store replacing the registry instead of one entry
StoreReportAlone(reg, o, rep) ==
    IF o.name # Undefined THEN [k \in {o.name} |-> rep] ELSE reg

\* if (opts.name != null) reports[opts.name] = {...}
StoreReport(reg, o, rep) ==
    IF o.name # Undefined THEN Spread(reg, [k \in {o.name} |-> rep]) ELSE reg

\* The locals of benchFancy on entry, before the first pass of the do-while loop.
Enter(options, f) ==
    [phase |-> "warmup", form |-> f, opts |-> ResolveOpts(options),
     warmupCount |-> 0, warmupTime |-> 0, samples |-> NotDerived,
     i |-> 0, totalTime |-> 0, sampleTimes |-> <<>>]

\* After the sampling loop: the mean is taken and the report stored.
Finish(st, reg) ==
    [run |-> [st EXCEPT !.phase = "done"],
     reports |-> StoreReport(reg, st.opts,
                    MakeReport(st.opts, st.sampleTimes, st.totalTime, st.samples))]

\* One pass of the do-while loop that measured `elapsed`.  Leaving the loop
\* derives the sample count and enters the sampling loop, which ends at
\* once when its condition is false.
WarmupPass(st, reg, elapsed) ==
    LET time == st.warmupTime + elapsed
        count == st.warmupCount + 1
        st1 == [st EXCEPT !.warmupTime = time, !.warmupCount = count]
        st2 == [st1 EXCEPT !.samples = DeriveSamples(st.opts, time, count)]
    IN  IF WarmupContinue(count, time, st.opts) THEN [run |-> st1, reports |-> reg]
        ELSE IF SampleContinue(0, st2.samples)
             THEN [run |-> [st2 EXCEPT !.phase = "sampling"], reports |-> reg]
             ELSE Finish(st2, reg)

\* One pass of the sampling loop that measured `elapsed`.
SamplePass(st, reg, elapsed) ==
    LET st1 == [st EXCEPT !.totalTime = @ + elapsed,
                          !.sampleTimes = Append(@, elapsed),
                          !.i = @ + 1]
    IN  IF SampleContinue(st1.i, st.samples) THEN [run |-> st1, reports |-> reg]
        ELSE Finish(st1, reg)

\* One trial of either loop: run1(fn), whose error ends the call.
Trial(st, reg, t0, w) ==
    LET r == run1(t0, w)
    IN  IF r.threw THEN [run |-> [st EXCEPT !.phase = "failed"], reports |-> reg]
        ELSE IF st.phase = "warmup" THEN WarmupPass(st, reg, r.value)
        ELSE SamplePass(st, reg, r.value)

Running(st) == st.phase \in {"warmup", "sampling"}

\* The model follows a loop no further than its bound.
WithinBounds(st) ==
    /\ st.phase = "warmup" => st.warmupCount < MaxWarmup
    /\ st.phase = "sampling" => st.i < MaxSamples

\* benchFancy from entry on, every trial entered at t0 and behaving as w.
RECURSIVE RunOn(_, _, _)
RunOn(c, t0, w) ==
    IF Running(c.run) /\ WithinBounds(c.run)
    THEN RunOn(Trial(c.run, c.reports, t0, w), t0, w)
    ELSE c

benchFancy(reg, options, t0, w) ==
    RunOn([run |-> Enter(options, "benchFancy"), reports |-> reg], t0, w)

LastDur(w) == IF w.durs = <<>> THEN 0 ELSE w.durs[Len(w.durs)]
NoTable == EmptyMap

\* The step just taken: the operation, whether it returned, and of a trial
\* the invocations of the callback, the time of the last measured region,
\* the time of all measured regions and the time outside them; of a table
\* what was printed.
Step(f, returned, w, t) ==
    [op |-> f, ok |-> returned, calls |-> Len(w.durs), dur |-> LastDur(w),
     sum |-> SumSeq(w.durs), outside |-> w.setup + w.teardown, table |-> t]
NoWork == [setup |-> 0, durs |-> <<>>, teardown |-> 0]

Began(f) == Step(f, TRUE, NoWork, NoTable)
Tried(w, nx) == Step("run1", nx.run.phase # "failed", w, NoTable)

\* benchFancy(options, fn) is entered.
BenchFancyCall ==
    \E options \in OptionsArgs :
        /\ ~Running(run)
        /\ runs < MaxRuns
        /\ run' = Enter(options, "benchFancy")
        /\ reportsAtStart' = reports
        /\ measured' = <<>>
        /\ runs' = runs + 1
        /\ last' = Began("benchFancy")
        /\ UNCHANGED <<reports, file, ixVars, saveVars>>

\* The next trial of the call runs.
RunTrial ==
    \E t0 \in Readings, w \in Workloads :
        /\ Running(run)
        /\ WithinBounds(run)
        /\ LET nx == Trial(run, reports, t0, w)
           IN  /\ run' = nx.run
               /\ reports' = nx.reports
               /\ last' = Tried(w, nx)
               /\ measured' = IF run.phase = "sampling" /\ nx.run.phase # "failed"
                               THEN Append(measured, LastDur(w)) ELSE measured
        /\ UNCHANGED <<file, ixVars, reportsAtStart, runs, saveVars>>

\* A pass beyond the bound of a loop that leaves the loop where it was: a
\* warmup pass that measured 0 (the count is MaxWarmup >= 4 and the total
\* is as it was, so the condition of the do-while loop is as it was), or a
\* sampling pass towards a sample count of Infinity (i < Infinity whatever
\* i is).  Of such a pass the model keeps the locals as they were: beyond
\* the bound warmupCount, i, totalTime and sampleTimes stand for "the bound
\* or more".
SamePlace(st, nx) ==
    \/ /\ st.phase = "warmup" /\ nx.phase = "warmup"
       /\ nx.warmupTime = st.warmupTime
       /\ WarmupContinue(st.warmupCount, st.warmupTime, st.opts)
            = WarmupContinue(nx.warmupCount, nx.warmupTime, nx.opts)
    \/ /\ st.phase = "sampling" /\ nx.phase = "sampling"
       /\ st.samples = Infinity

\* The next trial of the call runs, the loops followed without end: within
\* the bounds as RunTrial does, beyond them through the trials that fail
\* the call and the passes that leave the loop where it was.
LiveTrial ==
    \E t0 \in Readings, w \in Workloads :
        /\ Running(run)
        /\ LET nx == Trial(run, reports, t0, w)
           IN  /\ \/ /\ WithinBounds(run) \/ nx.run.phase = "failed"
                     /\ run' = nx.run
                     /\ reports' = nx.reports
                     /\ measured' = IF run.phase = "sampling" /\ nx.run.phase # "failed"
                                     THEN Append(measured, LastDur(w)) ELSE measured
                  \/ /\ ~WithinBounds(run)
                     /\ SamePlace(run, nx.run)
                     /\ UNCHANGED <<run, reports, measured>>
               /\ last' = Tried(w, nx)
        /\ UNCHANGED <<file, ixVars, reportsAtStart, runs, saveVars>>

-----------------------------------------------------------------------------
(* The report file.                                                        *)
(*                                                                         *)
(* file.kind is what the text of the file is: "absent" (no file), "garbage"*)
(* (not JSON), "string", "number", "null", "array" or "object".  file.map  *)
(* holds the own enumerable keys of an object or an array (an array's keys *)
(* are its indices "0", "1", ...) and the JSON value under each.           *)

\* JSON.stringify writes a number that is not finite as null
NumToJSON(x) == IF x.d = 0 THEN JNull ELSE x

\* JSON.stringify leaves out a key whose value is undefined
OptsToJSON(o) ==
    IF o.name = Undefined THEN [k \in DOMAIN o \ {"name"} |-> o[k]] ELSE o

\* JSON.parse(JSON.stringify(report))
ReportToJSON(r) ==
    [k \in DOMAIN r |->
        IF k = "meanTime" THEN NumToJSON(r[k])
        ELSE IF k = "options" THEN OptsToJSON(r[k])
        ELSE r[k]]

\* JSON.parse(JSON.stringify(mapping, null, 2))
MapToJSON(m) == [k \in DOMAIN m |-> ReportToJSON(m[k])]

\* JSON.parse(fs.readFileSync(filename, 'utf8'))
ReadParse(f) ==
    IF f.kind = "absent" THEN [threw |-> TRUE, code |-> "ENOENT", value |-> f]
    ELSE IF f.kind = "garbage" THEN [threw |-> TRUE, code |-> "SyntaxError", value |-> f]
    ELSE [threw |-> FALSE, code |-> "", value |-> f]

\* typeof v !== 'object' || v == null
NotAnObject(v) == v.kind \notin {"object", "array"}

\* The try/catch of saveReportsSync: the mapping to merge into, or the error
\* thrown on.
LoadCurrent(f) ==
    LET r == ReadParse(f)
    IN  IF r.threw
        THEN IF r.code # "ENOENT"
             THEN [threw |-> TRUE, current |-> EmptyMap]
             ELSE [threw |-> FALSE, current |-> EmptyMap]
        ELSE IF NotAnObject(r.value)
             THEN [threw |-> TRUE, current |-> EmptyMap]
             ELSE [threw |-> FALSE, current |-> r.value.map]

\* the merge with the spreads in the other order
MergeForSaveDiskLast(current, reg) == Spread(reg, current)

\* the merge that writes the registry alone
MergeForSaveRegistryOnly(current, reg) == reg

\* const merged = {...currentReports, ...reports}
MergeForSave(current, reg) == Spread(current, reg)

\* the merge done on the registry itself, Object.assign(reports, ...)
RegistryAssigned(reg, copy) == copy

\* The registry after a function that spread it into an object of its own
\* (merged = {...currentReports, ...reports}, r = {...reports},
\* r = {...r, ...fileReports}) and changed that object only.
RegistryAfter(reg, copy) == reg

\* fs.writeFileSync(filename, JSON.stringify(merged, null, 2)): the file
\* afterwards
WriteMerged(merged) == [kind |-> "object", map |-> MapToJSON(merged)]

\* saveReportsSync(filename): the file and the registry afterwards and
\* whether the call threw
saveReportsSync(f, reg) ==
    LET c == LoadCurrent(f)
        merged == MergeForSave(c.current, reg)
    IN  IF c.threw THEN [threw |-> TRUE, file |-> f, reports |-> reg]
        ELSE [threw |-> FALSE,
              file |-> WriteMerged(merged),
              reports |-> RegistryAfter(reg, merged)]

\* r = {...r, ...fileReports}
MergeForTable(reg, fileReports) == Spread(reg, fileReports)

\* reportTable(filename): what console.table is given, or the error thrown,
\* and the registry and the file afterwards (the file is only read).
\* withFile is whether a filename was passed.
reportTable(f, reg, withFile) ==
    LET p == ReadParse(f)
        r == IF withFile THEN MergeForTable(reg, p.value.map) ELSE reg
    IN  IF withFile /\ (p.threw \/ NotAnObject(p.value))
        THEN [threw |-> TRUE, table |-> NoTable, reports |-> reg, file |-> f]
        ELSE [threw |-> FALSE,
              table |-> [name \in DOMAIN r |-> [mean |-> round(r[name].meanTime)]],
              reports |-> RegistryAfter(reg, r), file |-> f]

\* saveReportsSync(filename) is called.
Save ==
    /\ ~Running(run)
    /\ LET s == saveReportsSync(file, reports)
       IN  /\ file' = s.file
           /\ reports' = s.reports
           /\ last' = Step("saveReportsSync", ~s.threw, NoWork, NoTable)
    /\ UNCHANGED <<run, ixVars, reportsAtStart, measured, runs, saveVars>>

\* reportTable() or reportTable(filename) is called.
Table ==
    \E withFile \in BOOLEAN :
        /\ ~Running(run)
        /\ LET t == reportTable(file, reports, withFile)
           IN  /\ file' = t.file
               /\ reports' = t.reports
               /\ last' = Step(IF withFile THEN "reportTable(filename)"
                                ELSE "reportTable()", ~t.threw, NoWork, t.table)
        /\ UNCHANGED <<run, ixVars, reportsAtStart, measured, runs, saveVars>>

\* Workloads that behave the same in every trial.
UniformWorkloads ==
    { [setup |-> 0, durs |-> ds, teardown |-> 0]
        : ds \in {<<>>, <<0>>, <<1>>, <<1, 0>>} }

\* benchFancy(options, fn) runs from entry to return (or to its error) with
\* a workload that behaves the same in every trial; its locals are gone when
\* it returns.  A call that would go past the bounds of the model is not taken.
BenchFancyRun ==
    \E options \in OptionsArgs, t0 \in Readings, w \in UniformWorkloads :
        /\ ~Running(run)
        /\ \E end \in {benchFancy(reports, options, t0, w)} :
            /\ ~Running(end.run)
            /\ reports' = end.reports
            /\ last' = Step("benchFancy", end.run.phase = "done", w, NoTable)
        /\ UNCHANGED <<file, run, ixVars, reportsAtStart, measured, runs, saveVars>>

-----------------------------------------------------------------------------
(* Two processes saving to the same path.  Each has a registry of its own  *)
(* and calls saveReportsSync once; the call is two steps on the file, the  *)
(* read (readFileSync, parse, check) and the write (merge, writeFileSync), *)
(* and steps of the other process may come between them.                   *)

Procs == {1, 2}
NoSavers == [p \in Procs |-> [reports |-> EmptyMap, pc |-> "none", current |-> EmptyMap]]

\* The try/catch of saveReportsSync in process p.
ProcRead ==
    \E p \in Procs :
        /\ savers[p].pc = "start"
        /\ LET c == LoadCurrent(file)
           IN  savers' = [savers EXCEPT ![p].pc = IF c.threw THEN "threw" ELSE "read",
                                        ![p].current = c.current]
        /\ events' = Append(events, [proc |-> p, step |-> "read"])
        /\ UNCHANGED <<reports, file, run, ixVars, reportsAtStart, measured, runs, last>>

\* The merge and writeFileSync of saveReportsSync in process p.
ProcWrite ==
    \E p \in Procs :
        /\ savers[p].pc = "read"
        /\ file' = WriteMerged(MergeForSave(savers[p].current, savers[p].reports))
        /\ savers' = [savers EXCEPT ![p].pc = "done"]
        /\ events' = Append(events, [proc |-> p, step |-> "write"])
        /\ UNCHANGED <<reports, run, ixVars, reportsAtStart, measured, runs, last>>

-----------------------------------------------------------------------------
(* bench: the wrapper around benchFancy, and the bench of src/index.ts.    *)
(* Both are given the same options and the same fn, whose k-th call takes  *)
(* fn[k] ticks (k counted round the length of fn); the clock moves only    *)
(* while fn runs.                                                          *)

FnCosts == [1..2 -> Durations]
Cost(f, k) == f[((k - 1) % Len(f)) + 1]

\* bench(options, fn) of src/index.ts on entry: start = performance.now()
IxEnter(options, now) ==
    [phase |-> "warmup", opts |-> ResolveOpts(options), now |-> now,
     start |-> now, end |-> now, warmupCount |-> 0, samples |-> NotDerived, i |-> 0]

IxContinue(st) == st.end - st.start < st.opts.warmupTime

IxDeriveSamples(o, time, count) ==
    LET timePerIteration == JsDiv(NumI(time), NumI(count))
    IN  JsMax(NumI(o.samples), JsFloor(JsDiv(NumI(o.testTime), timePerIteration)))

IxStoreReport(reg, o, mean) ==
    IF o.name # Undefined
    THEN Spread(reg, [k \in {o.name} |-> [meanTime |-> mean, options |-> o]])
    ELSE reg

\* After the for loop: end = performance.now(), the mean, the report.
IxFinish(st, reg) ==
    [ix |-> [st EXCEPT !.phase = "done", !.end = st.now],
     reports |-> IxStoreReport(reg, st.opts,
                    JsDiv(NumI(st.now - st.start), st.samples))]

\* One pass of the do-while loop, fn taking d ticks.
IxWarmupPass(st, reg, d) ==
    LET st1 == [st EXCEPT !.now = @ + d, !.end = st.now + d, !.warmupCount = @ + 1]
        st2 == [st1 EXCEPT
                  !.samples = IxDeriveSamples(st.opts, st1.end - st1.start,
                                              st1.warmupCount),
                  !.start = st1.now]
    IN  IF IxContinue(st1) THEN [ix |-> st1, reports |-> reg]
        ELSE IF SampleContinue(0, st2.samples)
             THEN [ix |-> [st2 EXCEPT !.phase = "sampling"], reports |-> reg]
             ELSE IxFinish(st2, reg)

\* One pass of the for loop, fn taking d ticks.
IxSamplePass(st, reg, d) ==
    LET st1 == [st EXCEPT !.now = @ + d, !.i = @ + 1]
    IN  IF SampleContinue(st1.i, st.samples) THEN [ix |-> st1, reports |-> reg]
        ELSE IxFinish(st1, reg)

IxCalls(st) == st.warmupCount + st.i
IxWithinBounds(st) ==
    /\ st.phase = "warmup" => st.warmupCount < MaxWarmup
    /\ st.phase = "sampling" => st.i < MaxSamples

\* bench(options, fn) is called in both modules.
BenchCall ==
    \E options \in OptionsArgs, f \in FnCosts, now \in Readings :
        /\ ~Running(run) /\ ~Running(ix)
        /\ runs < MaxRuns
        /\ run' = Enter(options, "bench")
        /\ ix' = IxEnter(options, now)
        /\ fn' = f
        /\ reportsAtStart' = reports
        /\ measured' = <<>>
        /\ runs' = runs + 1
        /\ last' = Began("bench")
        /\ UNCHANGED <<reports, file, ixReports, saveVars>>

\* The next trial of benchFancy(options, b => { b(fn) }).
BenchTrial ==
    \E t0 \in Readings :
        /\ run.form = "bench"
        /\ Running(run)
        /\ WithinBounds(run)
        /\ LET w == Wrapper(Cost(fn, run.warmupCount + run.i + 1))
               nx == Trial(run, reports, t0, w)
           IN  /\ run' = nx.run
               /\ reports' = nx.reports
               /\ last' = Tried(w, nx)
               /\ measured' = IF run.phase = "sampling" /\ nx.run.phase # "failed"
                               THEN Append(measured, LastDur(w)) ELSE measured
        /\ UNCHANGED <<file, ixVars, reportsAtStart, runs, saveVars>>

\* The next call of fn in the bench of src/index.ts.
IxTrial ==
    /\ Running(ix)
    /\ IxWithinBounds(ix)
    /\ LET d == Cost(fn, IxCalls(ix) + 1)
           nx == IF ix.phase = "warmup" THEN IxWarmupPass(ix, ixReports, d)
                 ELSE IxSamplePass(ix, ixReports, d)
       IN  /\ ix' = nx.ix
           /\ ixReports' = nx.reports
           /\ last' = [Step("fn", TRUE, Wrapper(d), NoTable) EXCEPT !.calls = 0]
    /\ UNCHANGED <<reports, file, run, fn, reportsAtStart, measured, runs, saveVars>>

-----------------------------------------------------------------------------
(* Specifications.                                                         *)

NoRun == [Enter([kind |-> "null"], "benchFancy") EXCEPT !.phase = "idle"]
NoIx == [IxEnter([kind |-> "null"], 0) EXCEPT !.phase = "idle"]
AbsentFile == [kind |-> "absent", map |-> EmptyMap]

NamedOptions(b, nm) ==
    [kind |-> "object",
     fields |-> [warmupTime |-> b[1], testTime |-> b[2], samples |-> b[3],
                 name |-> nm]]

\* A registry left by two earlier calls: "A" from a workload that measured 0
\* in every trial, "B" from one that measured 1.
PriorRegistry ==
    LET a == benchFancy(EmptyMap, NamedOptions(<<0, 0, 1>>, "A"), 0,
                        [setup |-> 0, durs |-> <<0>>, teardown |-> 0]).reports
    IN  benchFancy(a, NamedOptions(<<2, 1, 2>>, "B"), 0,
                   [setup |-> 0, durs |-> <<1>>, teardown |-> 0]).reports

\* A report some other process wrote to the file.
DiskReport ==
    [sampleTimes |-> <<7, 7>>, meanTime |-> NumI(7),
     options |-> [warmupTime |-> 0, testTime |-> 0, samples |-> 2,
                  name |-> "A", quiet |-> TRUE]]

InitFiles ==
    { [kind |-> k, map |-> EmptyMap]
        : k \in {"absent", "garbage", "string", "number", "null", "array", "object"} }
    \cup { [kind |-> "array", map |-> [k \in {"0"} |-> DiskReport]] }
    \cup { [kind |-> "object", map |-> [k \in ks |-> DiskReport]]
            : ks \in {{"A"}, {"B"}} }

\* One benchmark call followed trial by trial, the registry empty or left
\* by earlier calls.
Init ==
    /\ reports \in {EmptyMap, PriorRegistry}
    /\ file = AbsentFile
    /\ run = NoRun
    /\ ixReports = EmptyMap
    /\ ix = NoIx
    /\ fn = <<0, 0>>
    /\ reportsAtStart = reports
    /\ measured = <<>>
    /\ runs = 0
    /\ last = Began("init")
    /\ savers = NoSavers
    /\ events = <<>>

Next ==
    \/ BenchFancyCall
    \/ RunTrial

Spec == Init /\ [][Next]_vars

\* The same call with its loops followed without end.  benchFancy is
\* synchronous: while a loop's condition holds the next trial runs.
LiveNext ==
    \/ BenchFancyCall
    \/ LiveTrial

LiveSpec == Init /\ [][LiveNext]_vars /\ WF_vars(LiveTrial)

\* Whole benchmark calls, saves and tables in any order, from program start.
StoreInit ==
    /\ reports = EmptyMap
    /\ file \in InitFiles
    /\ run = NoRun
    /\ ixReports = EmptyMap
    /\ ix = NoIx
    /\ fn = <<0, 0>>
    /\ reportsAtStart = EmptyMap
    /\ measured = <<>>
    /\ runs = 0
    /\ last = Began("init")
    /\ savers = NoSavers
    /\ events = <<>>

StoreNext ==
    \/ BenchFancyRun
    \/ Save
    \/ Table

StoreSpec == StoreInit /\ [][StoreNext]_vars

\* bench(options, fn) of both modules on the same options and fn, from
\* program start.
BenchInit ==
    /\ reports = EmptyMap
    /\ file = AbsentFile
    /\ run = NoRun
    /\ ixReports = EmptyMap
    /\ ix = NoIx
    /\ fn = <<0, 0>>
    /\ reportsAtStart = EmptyMap
    /\ measured = <<>>
    /\ runs = 0
    /\ last = Began("init")
    /\ savers = NoSavers
    /\ events = <<>>

BenchNext ==
    \/ BenchCall
    \/ BenchTrial
    \/ IxTrial

BenchSpec == BenchInit /\ [][BenchNext]_vars

\* The registry a process holds after one call named nm.
RegistryOf(nm) ==
    benchFancy(EmptyMap, NamedOptions(<<2, 1, 2>>, nm), 0,
               [setup |-> 0, durs |-> <<1>>, teardown |-> 0]).reports
SaverRegistries == {EmptyMap, RegistryOf("A"), RegistryOf("B"), PriorRegistry}

\* Two processes, each about to call saveReportsSync on the path.
SaveInit ==
    /\ reports = EmptyMap
    /\ file \in InitFiles
    /\ run = NoRun
    /\ ixReports = EmptyMap
    /\ ix = NoIx
    /\ fn = <<0, 0>>
    /\ reportsAtStart = EmptyMap
    /\ measured = <<>>
    /\ runs = 0
    /\ last = Began("init")
    /\ savers \in [Procs -> { [reports |-> r, pc |-> "start", current |-> EmptyMap]
                                : r \in SaverRegistries }]
    /\ events = <<>>

SaveNext ==
    \/ ProcRead
    \/ ProcWrite

SaveSpec == SaveInit /\ [][SaveNext]_vars

-----------------------------------------------------------------------------
(* Properties.                                                             *)

Named == run.opts.name # Undefined
LeftWarmup == run.samples # NotDerived
PriorNames == DOMAIN reportsAtStart

\* C1: a trial whose workload returns without invoking the measure callback
\* ends the call with the error, and the registry is as it was when the
\* call began.
C1_NoMeasureFailsRun ==
    (last.op = "run1" /\ last.calls = 0) =>
        /\ ~last.ok
        /\ run.phase = "failed"
        /\ reports = reportsAtStart

\* C1 happens in the sampling phase of a call whose name the registry holds.
C1_Witness ==
    /\ last.op = "run1" /\ last.calls = 0
    /\ LeftWarmup
    /\ run.opts.name \in DOMAIN reports

\* C2: once the call has left the warmup loop it has run at least 4 warmup
\* trials and the warmup time is at least options.warmupTime.
C2_WarmupFloor ==
    LeftWarmup =>
        /\ run.warmupCount >= 4
        /\ run.warmupTime >= run.opts.warmupTime

\* C2 happens where the time, not the count, kept the loop going.
C2_Witness ==
    /\ run.phase = "sampling"
    /\ run.warmupCount > 4
    /\ run.opts.warmupTime > 0

\* C3: a call that returns has run at least options.samples sampling trials.
C3_AtLeastSamples ==
    run.phase = "done" => run.i >= run.opts.samples

\* C4: after a successful named call the entry's sampleTimes has as many
\* elements as the derived sample count, holds the elapsed times of the
\* sampling trials in order, and meanTime is their sum over the sample count.
C4_ReportOfSamples ==
    (run.phase = "done" /\ Named) =>
        LET r == reports[run.opts.name]
        IN  /\ NumI(Len(r.sampleTimes)) = run.samples
            /\ r.sampleTimes = measured
            /\ r.meanTime = JsDiv(NumI(SumSeq(measured)), run.samples)

\* C10: a successful call named n changes the registry at n only, where the
\* new report replaces what was there; a call without a name changes nothing.
C10_StoreFrame ==
    run.phase = "done" =>
        IF Named
        THEN /\ DOMAIN reports = PriorNames \cup {run.opts.name}
             /\ \A m \in PriorNames \ {run.opts.name} : reports[m] = reportsAtStart[m]
             /\ reports[run.opts.name].sampleTimes = run.sampleTimes
             /\ reports[run.opts.name].options = run.opts
             /\ reports[run.opts.name].meanTime =
                    JsDiv(NumI(run.totalTime), run.samples)
        ELSE reports = reportsAtStart

\* C10 happens where the call replaces an entry and another entry stays.
C10_Witness ==
    /\ run.phase = "done" /\ Named
    /\ run.opts.name \in PriorNames
    /\ reports[run.opts.name] # reportsAtStart[run.opts.name]
    /\ PriorNames \ {run.opts.name} # {}

\* The names a file holds: the keys of its object (an array's are its indices).
DiskNames(f) == IF f.kind \in {"object", "array"} THEN DOMAIN f.map ELSE {}

SaveDone == last'.op = "saveReportsSync"
TableDone == last.op = "reportTable(filename)"

\* C5: after a successful save the file is an object whose names are those
\* on disk before together with the registry's; a name of the registry
\* holds the registry's report as JSON writes it, a name only on disk holds
\* what it held.
C5_SaveMerges ==
    [][ (SaveDone /\ last'.ok) =>
            /\ file'.kind = "object"
            /\ DOMAIN file'.map = DiskNames(file) \cup DOMAIN reports
            /\ \A n \in DOMAIN reports : file'.map[n] = ReportToJSON(reports[n])
            /\ \A n \in DiskNames(file) \ DOMAIN reports : file'.map[n] = file.map[n]
      ]_vars

\* C5 happens where the save kept a name only on disk beside one of the
\* registry.
C5_Witness ==
    /\ last.op = "saveReportsSync" /\ last.ok
    /\ DOMAIN reports # {}
    /\ \E n \in DiskNames(file) \ DOMAIN reports : file.map[n] = DiskReport
    /\ \E n \in DOMAIN reports : file.map[n] # DiskReport

\* C6: reportTable(path) shows, for a name of the registry, the mean of the
\* registry's report; the file's entries fill in the other names only.
C6_TableRegistryFirst ==
    (TableDone /\ last.ok) =>
        /\ DOMAIN last.table = DOMAIN reports \cup DiskNames(file)
        /\ \A n \in DOMAIN reports :
                last.table[n].mean = round(reports[n].meanTime)
        /\ \A n \in DiskNames(file) \ DOMAIN reports :
                last.table[n].mean = round(file.map[n].meanTime)

NotAMapping == {"garbage", "string", "number", "null", "array"}

\* C7: on a file whose content is not a name-to-report mapping (a string, a
\* number, null, an array, text that is not JSON) saveReportsSync throws
\* and leaves the file, and reportTable throws and prints nothing.
C7_RejectsNonMapping ==
    [][ file.kind \in NotAMapping =>
            /\ SaveDone => (~last'.ok /\ file' = file)
            /\ last'.op = "reportTable(filename)" =>
                    (~last'.ok /\ last'.table = NoTable)
      ]_vars

\* C8: a save to a path that does not exist succeeds, and the mapping
\* loaded from the path has the registry's names and, under each, the
\* registry's meanTime and sampleTimes.
C8_FreshSaveRoundTrip ==
    [][ (file.kind = "absent" /\ SaveDone) =>
            /\ last'.ok
            /\ ~ReadParse(file').threw
            /\ LET loaded == ReadParse(file').value.map
               IN  /\ DOMAIN loaded = DOMAIN reports
                   /\ \A n \in DOMAIN reports :
                        /\ loaded[n].meanTime = reports[n].meanTime
                        /\ loaded[n].sampleTimes = reports[n].sampleTimes
      ]_vars

BothDone == run.phase = "done" /\ ix.phase = "done"

\* C9: bench(options, fn) and benchFancy(options, b => b(fn)), given the same
\* options, fn and clock, run as many warmup trials and as many sampling
\* trials and leave the same entry, sampleTimes included, under the name.
C9_BenchAgrees ==
    BothDone =>
        /\ ix.warmupCount = run.warmupCount
        /\ ix.i = run.i
        /\ DOMAIN ixReports = DOMAIN reports
        /\ \A n \in DOMAIN reports :
            /\ DOMAIN ixReports[n] = DOMAIN reports[n]
            /\ ixReports[n].meanTime = reports[n].meanTime
            /\ ixReports[n].options = reports[n].options

\* warmupTime / warmupCount, the estimate the sample count is derived from
Estimate == JsDiv(NumI(run.warmupTime), NumI(run.warmupCount))
\* Math.floor(opts.testTime / estimate)
ByTime == JsFloor(JsDiv(NumI(run.opts.testTime), Estimate))
PlusOne(x) == IF x.d = 0 THEN x ELSE Frac(x.n + x.d, x.d)

\* C13: where the estimate from warmup is greater than 0, one iteration more
\* than the derived sample count goes past the time budget,
\* (samples + 1) * estimate > options.testTime, and the sample count is
\* floor(testTime / estimate) exactly when that is at least options.samples.
C13_SamplesFillBudget ==
    (LeftWarmup /\ JsLt(NumI(0), Estimate)) =>
        /\ JsLt(NumI(run.opts.testTime), JsMul(PlusOne(run.samples), Estimate))
        /\ run.samples = ByTime <=> ~JsLt(ByTime, NumI(run.opts.samples))

\* C13 happens where the time budget gives more samples than options.samples.
C13_Witness ==
    /\ LeftWarmup /\ JsLt(NumI(0), Estimate)
    /\ JsLt(NumI(run.opts.samples), ByTime)
    /\ run.samples = ByTime

TrialDone == last'.op = "run1"

\* C15: a trial whose workload invokes the callback once adds to the warmup
\* total, or records as its sample time, the time of the measured function
\* alone (the reading after it returns minus the reading before it is
\* invoked), whatever the workload spends in setup and teardown; no recorded
\* time is negative, and the stored meanTime is the total of the sample
\* times over the sample count.
C15_MeasuredRegionOnly ==
    [][ (TrialDone /\ last'.calls = 1) =>
            /\ last'.ok
            /\ run.phase = "warmup" =>
                    run'.warmupTime = run.warmupTime + last'.dur
            /\ run.phase = "sampling" =>
                    /\ run'.sampleTimes = Append(run.sampleTimes, last'.dur)
                    /\ run'.totalTime = run.totalTime + last'.dur
            /\ run'.warmupTime >= 0
            /\ \A k \in 1..Len(run'.sampleTimes) : run'.sampleTimes[k] >= 0
            /\ (run'.phase = "done" /\ run'.opts.name # Undefined) =>
                    /\ reports'[run'.opts.name].sampleTimes = run'.sampleTimes
                    /\ reports'[run'.opts.name].meanTime =
                            JsDiv(NumI(SumSeq(run'.sampleTimes)), run'.samples)
      ]_vars

\* C15 happens where a sampling trial with setup and teardown around a
\* measured function of one tick ends a named call.
C15_Witness ==
    /\ last.op = "run1" /\ last.calls = 1
    /\ last.outside = 2 /\ last.dur = 1
    /\ run.phase = "done" /\ Named
    /\ run.i > 0

\* C18: a trial whose workload invokes the callback more than once does not
\* fail and counts once, with the time of the last measured region alone.
C18_LastRegionOnly ==
    [][ (TrialDone /\ last'.calls > 1) =>
            /\ last'.ok
            /\ run.phase = "warmup" =>
                    /\ run'.warmupTime = run.warmupTime + last'.dur
                    /\ run'.warmupCount = run.warmupCount + 1
                    /\ run'.sampleTimes = run.sampleTimes
            /\ run.phase = "sampling" =>
                    /\ run'.sampleTimes = Append(run.sampleTimes, last'.dur)
                    /\ run'.totalTime = run.totalTime + last'.dur
                    /\ run'.i = run.i + 1
                    /\ run'.warmupCount = run.warmupCount
      ]_vars

\* C18 happens where a sampling trial measured two regions, the first of
\* them taking time.
C18_Witness ==
    /\ last.op = "run1" /\ last.calls = 2
    /\ last.sum > last.dur
    /\ run.i > 0
    /\ run.sampleTimes[run.i] = last.dur

\* the defaults of warmupTime, testTime and samples are in force
DefaultBudget ==
    /\ run.opts.warmupTime = defaultOpts.warmupTime
    /\ run.opts.testTime = defaultOpts.testTime
    /\ run.opts.samples = defaultOpts.samples

\* C14 as stated: under the default options, once 4 warmup trials have run
\* and measured 0 in all, the warmup loop has stopped.
C14_FourTrialsThenStop ==
    (DefaultBudget /\ run.warmupCount >= 4 /\ run.warmupTime = 0) => LeftWarmup

\* C14 amended: a warmup trial after which the warmup total is below
\* options.warmupTime is followed by another warmup trial, however many
\* have run; the loop stops after the first trial that leaves the count at
\* 4 or more and the total at options.warmupTime or more.
C14_WarmupUntilTime ==
    [][ (run.phase = "warmup" /\ TrialDone /\ last'.ok) =>
            /\ run'.warmupCount = run.warmupCount + 1
            /\ run'.warmupTime < run.opts.warmupTime => run'.phase = "warmup"
            /\ (run'.warmupCount >= 4 /\ run'.warmupTime >= run.opts.warmupTime)
                    => run'.phase # "warmup"
      ]_vars

\* C14 happens where, under the default options, more than 4 trials have
\* measured 0 and the loop goes on.
C14_Witness ==
    /\ DefaultBudget
    /\ last.op = "run1" /\ last.ok
    /\ run.phase = "warmup"
    /\ run.warmupCount > 4
    /\ run.warmupTime = 0

\* C11: a call that is in its warmup loop leaves the loop, for the sampling
\* loop or by the error of a trial, whatever the options and the elapsed
\* times of the trials; the call cannot end otherwise.
C11_WarmupEnds == run.phase = "warmup" ~> run.phase # "warmup"

\* C16: no step of a process takes a name out of the registry, and none
\* takes a name out of the report file; a successful save keeps the names
\* the file held.
C16_NamesStay ==
    [][ /\ DOMAIN reports \subseteq DOMAIN reports'
        /\ DiskNames(file) \subseteq DiskNames(file')
        /\ (SaveDone /\ last'.ok) => DiskNames(file') = DiskNames(file) \cup DOMAIN reports
      ]_vars

\* C16 happens where a save has added the registry's name to a file that
\* held another.
C16_Witness ==
    /\ last.op = "saveReportsSync" /\ last.ok
    /\ DOMAIN reports = {"A"}
    /\ DiskNames(file) = {"A", "B"}

StoreRead == last'.op \in {"saveReportsSync", "reportTable()", "reportTable(filename)"}

\* C17: saveReportsSync and reportTable leave the registry as it was,
\* whether they return or throw, and reportTable leaves the file as it was.
C17_ReadersFrame ==
    [][ StoreRead =>
            /\ reports' = reports
            /\ last'.op # "saveReportsSync" => file' = file
      ]_vars

\* C17 happens where reportTable(filename) has merged a file holding a name
\* the registry does not hold.
C17_Witness ==
    /\ last.op = "reportTable(filename)" /\ last.ok
    /\ DOMAIN reports # {}
    /\ DiskNames(file) \ DOMAIN reports # {}

Wrote(p) == savers[p].pc = "done"
BothWrote == \A p \in Procs : Wrote(p)
LastWriter == events[Len(events)].proc
\* one call ended before the other began
Serialized == events[2].step = "write"

\* What a process that read the mapping current and holds the registry reg
\* is to leave in the file: the names of both, the registry's report as
\* JSON writes it under a name of the registry, what was read under the rest.
MergedFile(current, reg) ==
    [n \in DOMAIN current \cup DOMAIN reg |->
        IF n \in DOMAIN reg THEN ReportToJSON(reg[n]) ELSE current[n]]

\* C12: when both processes have written, the file is the merge of the
\* process that wrote last: the mapping that process read, overlaid with its
\* registry.  When one call ended before the other began the file holds
\* every name of both registries, the last writer's report under its names
\* and the first writer's report under the names only it holds.
C12_LastWriterWins ==
    BothWrote =>
        LET w == LastWriter
            o == CHOOSE p \in Procs : p # w
        IN  /\ file.kind = "object"
            /\ file.map = MergedFile(savers[w].current, savers[w].reports)
            /\ Serialized =>
                /\ DOMAIN savers[o].reports \cup DOMAIN savers[w].reports
                        \subseteq DOMAIN file.map
                /\ \A n \in DOMAIN savers[o].reports \ DOMAIN savers[w].reports :
                        file.map[n] = ReportToJSON(savers[o].reports[n])

\* C12 happens where the calls interleaved and a name that only the first
\* writer holds is missing from the file.
C12_Witness ==
    /\ BothWrote /\ ~Serialized
    /\ \E p \in Procs :
            /\ p # LastWriter
            /\ DOMAIN savers[p].reports \ DOMAIN file.map # {}
            /\ DOMAIN savers[LastWriter].reports # {}

====
